---- MODULE Spec2Model ----
(***************************************************************************)
(* Model of vllm/multimodal/profiling.py: MultiModalProfiler.              *)
(*                                                                         *)
(* A Python dict is a TLA+ function whose DOMAIN is the dict's key set; a  *)
(* Python list is a sequence.  The profiler's collaborators (processing   *)
(* info, dummy inputs builder, processor, logger) are fixed when the       *)
(* profiler is constructed; their declarations are the configuration       *)
(* variables below, chosen in Init and never changed.                      *)
(***************************************************************************)
EXTENDS Integers, Sequences, FiniteSets, TLC

VARIABLES
    supported_mm_limits,      \* info.get_supported_mm_limits(): modality -> limit or NoLimit
    limit_per_prompt,         \* mm_config.get_limit_per_prompt(modality), default included
    mm_max_tokens_per_item,   \* info.get_mm_max_tokens_per_item(...): modality -> tokens
    item_embeds,              \* processor: modality -> get_num_embeds() of each placeholder item
    text_len,                 \* number of text tokens of the dummy prompt
    pad_dummy_encoder_prompt, \* EncDecMultiModalProcessor.pad_dummy_encoder_prompt
    last,                     \* the last profiler call: its arguments and what it produced
    warned,                   \* messages logger.warning_once has already seen
    log,                      \* message -> number of lines written to the log
    overflows,                \* history: the overflow conditions that requested a warning
    snap,                     \* history: the first call of the run, kept for comparison
    calls_left,               \* profiling calls the caller still makes
    caller_mm_counts,         \* the mm_counts arguments the caller passes
    caller_seq_lens           \* the seq_len arguments the caller passes

config == <<supported_mm_limits, limit_per_prompt, mm_max_tokens_per_item,
            item_embeds, text_len, pad_dummy_encoder_prompt>>

vars == <<supported_mm_limits, limit_per_prompt, mm_max_tokens_per_item,
          item_embeds, text_len, pad_dummy_encoder_prompt,
          last, warned, log, overflows, snap, calls_left,
          caller_mm_counts, caller_seq_lens>>

(***************************************************************************)
(* Bounds of the model.                                                    *)
(***************************************************************************)
MaxLimit == 1      \* largest non-null supported limit
MaxTokens == 2     \* largest max-tokens-per-item and embeds per placeholder item
MaxSeqLen == 3     \* largest seq_len passed to a call
MaxCalls == 3      \* calls in a run of repeated profiling
MaxTextLen == 2    \* largest number of text tokens of the dummy prompt

Modalities == {"image", "audio"}

\* Iteration order of the dicts keyed by modality (Python dicts are ordered).
ModalityOrder == <<"image", "audio">>

\* supported limit None: the model supports any number of items
NoLimit == -1

\* the filler token id appended by the padding
FillerToken == 0

\* token ids the processor produces (never the filler)
TokenId == [text |-> 1, bos |-> 2, image |-> 3, audio |-> 4]

Max(a, b) == IF a > b THEN a ELSE b

\* [x] * n
Repeat(x, n) == [i \in 1..n |-> x]

\* All dicts with keys among Modalities and values in V.
Dicts(V) == UNION {[S -> V] : S \in SUBSET Modalities}

\* The optional argument mm_counts: omitted (None) or a mapping.
Omitted == [given |-> FALSE, value |-> << >>]
Given(c) == [given |-> TRUE, value |-> c]
MmCountsArgs == {Omitted} \cup {Given(c) : c \in Dicts(1..MaxLimit + 1)}

RECURSIVE Sum(_)
Sum(s) == IF s = << >> THEN 0 ELSE Head(s) + Sum(Tail(s))

RECURSIVE Concat(_)
Concat(ss) == IF ss = << >> THEN << >> ELSE Head(ss) \o Concat(Tail(ss))

(***************************************************************************)
(* get_mm_limits (lines 127-144).                                          *)
(***************************************************************************)
\* line 138 with <= for <
LimitExceededOrReached(supported_limit, limit) ==
    supported_limit # NoLimit /\ supported_limit <= limit

\* line 138: the supported limit is exceeded
LimitExceeded(supported_limit, limit) ==
    supported_limit # NoLimit /\ supported_limit < limit

\* lines 131-134
RequestedLimits == [m \in DOMAIN supported_mm_limits |-> limit_per_prompt[m]]

\* lines 136-142: the modalities for which the loop would raise
Offending ==
    {m \in DOMAIN supported_mm_limits :
        LimitExceeded(supported_mm_limits[m], RequestedLimits[m])}

\* the loop raises at the first offending modality, in dict order
FirstOffending ==
    LET idx == {i \in 1..Len(ModalityOrder) : ModalityOrder[i] \in Offending}
    IN  ModalityOrder[CHOOSE i \in idx : \A j \in idx : i <= j]

GetMmLimits ==
    IF Offending # {}
    THEN [raised |-> TRUE, modality |-> FirstOffending, value |-> << >>]
    ELSE [raised |-> FALSE, modality |-> "", value |-> RequestedLimits]

(***************************************************************************)
(* Collaborators of the profiler.                                          *)
(***************************************************************************)
\* info.get_mm_max_tokens_per_item(seq_len, mm_counts), called at lines 170-171:
\* the model's declaration, the same mapping for every seq_len and mm_counts
GetMmMaxTokensPerItem(seq_len, mm_counts) == mm_max_tokens_per_item

\* BaseDummyInputsBuilder.get_dummy_processor_inputs (lines 64-73): a prompt
\* and, per requested modality, mm_counts[modality] synthetic items
\* (lines 75-103: [item] * num_items).
GetDummyProcessorInputs(seq_len, mm_counts) ==
    [prompt_text |-> Repeat(TokenId.text, text_len),
     mm_data     |-> [m \in DOMAIN mm_counts |-> Repeat(m, mm_counts[m])]]

\* The modalities of d, in dict order.
Keys(d) == SelectSeq(ModalityOrder, LAMBDA m : m \in DOMAIN d)

\* processor.apply: a freshly built result.  Every item of a modality the
\* processor emits placeholders for gets one placeholder of item_embeds
\* embeddings; the prompts hold one token per embedding.
ProcessorApply(prompt, mm_data) ==
    LET emitted == [m \in DOMAIN mm_data \cap DOMAIN item_embeds |->
                       [i \in 1..Len(mm_data[m]) |-> item_embeds[m]]]
        mm_tokens == Concat([k \in 1..Len(Keys(emitted)) |->
                        Repeat(TokenId[Keys(emitted)[k]], Sum(emitted[Keys(emitted)[k]]))])
    IN  [prompt_token_ids         |-> prompt \o mm_tokens,
         encoder_prompt_token_ids |-> <<TokenId.bos>> \o mm_tokens,
         mm_placeholders          |-> emitted]

\* _get_dummy_mm_inputs keeping the token lists it returned last: the list
\* the last call extended in place is handed out again
GetDummyMmInputsKept(seq_len, mm_counts) ==
    LET processor_inputs == GetDummyProcessorInputs(seq_len, mm_counts)
        fresh == ProcessorApply(processor_inputs.prompt_text, processor_inputs.mm_data)
    IN  IF last.outcome = "ok" /\ last.op = "get_decoder_dummy_data"
        THEN [fresh EXCEPT !.prompt_token_ids = last.tokens]
        ELSE IF last.outcome = "ok" /\ last.op = "get_encoder_dummy_data"
        THEN [fresh EXCEPT !.encoder_prompt_token_ids = last.tokens]
        ELSE fresh

\* _get_dummy_mm_inputs (lines 146-159)
GetDummyMmInputs(seq_len, mm_counts) ==
    LET processor_inputs == GetDummyProcessorInputs(seq_len, mm_counts)
    IN  ProcessorApply(processor_inputs.prompt_text, processor_inputs.mm_data)

(***************************************************************************)
(* get_and_validate_mm_inputs (lines 161-197).                             *)
(***************************************************************************)
\* lines 166-167 with the limits checked whether or not mm_counts is given
ResolveMmCountsChecked(arg) ==
    [trace |-> <<"get_mm_limits">>, raised |-> GetMmLimits.raised,
     mm_counts |-> IF arg.given THEN arg.value ELSE GetMmLimits.value]

\* lines 166-167: mm_counts, and what was called to get it
ResolveMmCounts(arg) ==
    IF arg.given
    THEN [trace |-> << >>, raised |-> FALSE, mm_counts |-> arg.value]
    ELSE [trace |-> <<"get_mm_limits">>, raised |-> GetMmLimits.raised,
          mm_counts |-> GetMmLimits.value]

\* line 173 with the subset check left out
KeysNeverChecked(mm_counts, max_tokens) == FALSE

\* line 173: mm_counts.keys() - mm_max_tokens_per_item.keys() is not empty
KeysNotSubset(mm_counts, max_tokens) ==
    DOMAIN mm_counts \ DOMAIN max_tokens # {}

\* lines 183-186
TotalPlaceholders(placeholders_by_modality) ==
    [m \in DOMAIN placeholders_by_modality |-> Sum(placeholders_by_modality[m])]

\* lines 187-190; a modality missing from either mapping is a KeyError
ExpectedKeyError(placeholders_by_modality, max_tokens, mm_counts) ==
    DOMAIN placeholders_by_modality \ (DOMAIN max_tokens \cap DOMAIN mm_counts) # {}

ExpectedPlaceholders(placeholders_by_modality, max_tokens, mm_counts) ==
    [m \in DOMAIN placeholders_by_modality |-> max_tokens[m] * mm_counts[m]]

NoInputs == [prompt_token_ids |-> << >>, encoder_prompt_token_ids |-> << >>,
             mm_placeholders |-> << >>]

Raise(exc, check, trace, mm_counts) ==
    [outcome |-> exc, check |-> check, trace |-> trace, mm_counts |-> mm_counts,
     mm_inputs |-> NoInputs, totals |-> << >>]

GetAndValidateMmInputs(seq_len, arg) ==
    LET rc == ResolveMmCounts(arg)
        mm_counts == rc.mm_counts
        max_tokens == GetMmMaxTokensPerItem(seq_len, mm_counts)
        t1 == rc.trace \o <<"get_mm_max_tokens_per_item">>
        mm_inputs == GetDummyMmInputs(seq_len, mm_counts)
        t2 == t1 \o <<"get_dummy_processor_inputs", "apply">>
        placeholders == mm_inputs.mm_placeholders
        total == TotalPlaceholders(placeholders)
    IN  IF rc.raised THEN Raise("ValueError", "limits", rc.trace, << >>)
        ELSE IF KeysNotSubset(mm_counts, max_tokens)
        THEN Raise("AssertionError", "keys", t1, mm_counts)
        ELSE IF ExpectedKeyError(placeholders, max_tokens, mm_counts)
        THEN Raise("KeyError", "expected", t2, mm_counts)
        ELSE IF total # ExpectedPlaceholders(placeholders, max_tokens, mm_counts)
        THEN Raise("AssertionError", "placeholders", t2, mm_counts)
        ELSE [outcome |-> "ok", check |-> "", trace |-> t2, mm_counts |-> mm_counts,
              mm_inputs |-> mm_inputs, totals |-> total]

(***************************************************************************)
(* Overflow warnings (lines 217-230 and 253-266) and logger.warning_once.  *)
(***************************************************************************)
\* f"{total_placeholders_by_modality}": the items of the dict, in dict order
FormatDict(d) == [k \in 1..Len(Keys(d)) |-> <<Keys(d)[k], d[Keys(d)[k]]>>]

\* lines 220-230
EncoderWarning(seq_len, total_len, totals) ==
    [text |-> "The encoder sequence length used for profiling",
     seq_len |-> seq_len, total_len |-> total_len, totals |-> FormatDict(totals)]

\* lines 256-266 with seq_len left out of the message
DecoderWarningNoSeqLen(seq_len, total_len, totals) ==
    [text |-> "The sequence length used for profiling",
     seq_len |-> 0, total_len |-> total_len, totals |-> FormatDict(totals)]

\* lines 256-266
DecoderWarning(seq_len, total_len, totals) ==
    [text |-> "The sequence length used for profiling",
     seq_len |-> seq_len, total_len |-> total_len, totals |-> FormatDict(totals)]

\* line 217 with >= for >
EncoderOverflowOrFull(total_len, seq_len) == total_len >= seq_len

\* line 217
EncoderOverflow(total_len, seq_len) == total_len > seq_len

\* line 253 without the runtime flag
DecoderOverflowAnyRuntime(total_len, seq_len, use_v1) == total_len > seq_len

\* line 253
DecoderOverflow(total_len, seq_len, use_v1) == total_len > seq_len /\ ~use_v1

\* logger.warning_once(msg): a line is written unless msg was seen before
WarningOnce(msg) ==
    /\ warned' = warned \cup {msg}
    /\ log' = IF msg \in warned THEN log
              ELSE IF msg \in DOMAIN log THEN [log EXCEPT ![msg] = @ + 1]
              ELSE log @@ (msg :> 1)

\* the logging of one call: warning_once is called iff warn
Logging(warn, msg, condition) ==
    IF warn
    THEN WarningOnce(msg) /\ overflows' = overflows \cup {condition}
    ELSE UNCHANGED <<warned, log, overflows>>

(***************************************************************************)
(* Length shaping (lines 232-235 and 268-269).                             *)
(***************************************************************************)
\* lines 233-235 with the pad_dummy_encoder_prompt test left out
PadEncoderAlways(ids, seq_len, pad) ==
    ids \o Repeat(FillerToken, Max(Len(ids), seq_len) - Len(ids))

\* lines 233-235: encoder_prompt_token_ids.extend([0] * num_tokens_to_pad)
PadEncoder(ids, seq_len, pad) ==
    IF pad
    THEN LET num_tokens_to_pad == Max(Len(ids), seq_len) - Len(ids)
         IN  ids \o Repeat(FillerToken, num_tokens_to_pad)
    ELSE ids

\* lines 268-269 shaping the sequence to exactly seq_len, cutting a longer one
PadDecoderOrTruncate(ids, seq_len) ==
    IF Len(ids) < seq_len
    THEN ids \o Repeat(FillerToken, seq_len - Len(ids))
    ELSE SubSeq(ids, 1, seq_len)

\* lines 268-269: prompt_token_ids.extend([0] * (seq_len - total_len))
PadDecoder(ids, seq_len) ==
    IF Len(ids) < seq_len
    THEN ids \o Repeat(FillerToken, seq_len - Len(ids))
    ELSE ids

(***************************************************************************)
(* The calls.                                                              *)
(***************************************************************************)
NoCall ==
    [op |-> "none", seq_len |-> 0, arg |-> Omitted, use_v1 |-> FALSE,
     outcome |-> "none", check |-> "", trace |-> << >>, mm_counts |-> << >>,
     total_len |-> 0, warn |-> FALSE, tokens |-> << >>, totals |-> << >>,
     placeholders |-> << >>]

\* The state after a call: the call is recorded, the first call of a run is
\* kept in snap, and the driver has one call less to make.
Return(call) ==
    /\ calls_left > 0
    /\ last' = call
    /\ snap' = IF snap = NoCall THEN call ELSE snap
    /\ calls_left' = calls_left - 1
    /\ UNCHANGED <<config, caller_mm_counts, caller_seq_lens>>

\* get_mm_limits() (lines 127-144)
get_mm_limits ==
    /\ Return([NoCall EXCEPT
            !.op = "get_mm_limits",
            !.outcome = IF GetMmLimits.raised THEN "ValueError" ELSE "ok",
            !.check = GetMmLimits.modality,
            !.trace = <<"get_mm_limits">>,
            !.mm_counts = GetMmLimits.value])
    /\ UNCHANGED <<warned, log, overflows>>

\* get_and_validate_mm_inputs(seq_len, mm_counts) (lines 161-197)
get_and_validate_mm_inputs ==
    \E seq_len \in caller_seq_lens, arg \in caller_mm_counts :
        LET r == GetAndValidateMmInputs(seq_len, arg)
        IN  /\ Return([NoCall EXCEPT
                    !.op = "get_and_validate_mm_inputs",
                    !.seq_len = seq_len, !.arg = arg,
                    !.outcome = r.outcome, !.check = r.check, !.trace = r.trace,
                    !.mm_counts = r.mm_counts, !.totals = r.totals,
                    !.placeholders = r.mm_inputs.mm_placeholders])
            /\ UNCHANGED <<warned, log, overflows>>

\* get_encoder_dummy_data(seq_len, mm_counts) (lines 199-237)
get_encoder_dummy_data ==
    \E seq_len \in caller_seq_lens, arg \in caller_mm_counts :
        LET r == GetAndValidateMmInputs(seq_len, arg)
            encoder_prompt_token_ids == r.mm_inputs.encoder_prompt_token_ids
            total_len == Len(encoder_prompt_token_ids)
            ok == r.outcome = "ok"
            warn == ok /\ EncoderOverflow(total_len, seq_len)
        IN  /\ Return([NoCall EXCEPT
                    !.op = "get_encoder_dummy_data",
                    !.seq_len = seq_len, !.arg = arg,
                    !.outcome = r.outcome, !.check = r.check, !.trace = r.trace,
                    !.mm_counts = r.mm_counts, !.totals = r.totals,
                    !.total_len = IF ok THEN total_len ELSE 0,
                    !.warn = warn,
                    !.tokens = IF ok
                               THEN PadEncoder(encoder_prompt_token_ids, seq_len,
                                               pad_dummy_encoder_prompt)
                               ELSE << >>])
            /\ Logging(warn, EncoderWarning(seq_len, total_len, r.totals),
                       <<"encoder", seq_len, total_len, r.totals>>)

\* get_decoder_dummy_data(seq_len, mm_counts) (lines 239-275); envs.VLLM_USE_V1
\* is read from the environment when line 253 runs
get_decoder_dummy_data ==
    \E seq_len \in caller_seq_lens, arg \in caller_mm_counts, use_v1 \in BOOLEAN :
        LET r == GetAndValidateMmInputs(seq_len, arg)
            prompt_token_ids == r.mm_inputs.prompt_token_ids
            total_len == Len(prompt_token_ids)
            ok == r.outcome = "ok"
            warn == ok /\ DecoderOverflow(total_len, seq_len, use_v1)
        IN  /\ Return([NoCall EXCEPT
                    !.op = "get_decoder_dummy_data",
                    !.seq_len = seq_len, !.arg = arg, !.use_v1 = use_v1,
                    !.outcome = r.outcome, !.check = r.check, !.trace = r.trace,
                    !.mm_counts = r.mm_counts, !.totals = r.totals,
                    !.total_len = IF ok THEN total_len ELSE 0,
                    !.warn = warn,
                    !.tokens = IF ok THEN PadDecoder(prompt_token_ids, seq_len)
                               ELSE << >>,
                    !.placeholders = r.mm_inputs.mm_placeholders])
            /\ Logging(warn, DecoderWarning(seq_len, total_len, r.totals),
                       <<"decoder", seq_len, total_len, r.totals>>)

Next ==
    \/ get_mm_limits
    \/ get_and_validate_mm_inputs
    \/ get_encoder_dummy_data
    \/ get_decoder_dummy_data

(***************************************************************************)
(* Initial states.                                                         *)
(***************************************************************************)
Fresh ==
    /\ last = NoCall
    /\ warned = {}
    /\ log = << >>
    /\ overflows = {}
    /\ snap = NoCall

\* Every declaration of limits and of max tokens per item, with a builder
\* and processor that keep the builder's contract; one call.
InitLimits ==
    /\ supported_mm_limits \in Dicts({NoLimit} \cup 1..MaxLimit)
    /\ limit_per_prompt \in [Modalities -> 1..MaxLimit + 1]
    /\ mm_max_tokens_per_item \in Dicts({1})
    /\ item_embeds = mm_max_tokens_per_item
    /\ text_len = 1
    /\ pad_dummy_encoder_prompt = TRUE
    /\ calls_left = 1
    /\ caller_mm_counts = MmCountsArgs
    /\ caller_seq_lens = 0..MaxSeqLen
    /\ Fresh

\* Every declaration of max tokens per item against every processor,
\* contract kept or not; one call.
InitProcessor ==
    /\ supported_mm_limits = [m \in Modalities |-> NoLimit]
    /\ limit_per_prompt = [m \in Modalities |-> 1]
    /\ mm_max_tokens_per_item \in Dicts(1..MaxTokens)
    /\ item_embeds \in Dicts(1..MaxTokens)
    /\ text_len \in 1..MaxTextLen
    /\ pad_dummy_encoder_prompt \in BOOLEAN
    /\ calls_left = 1
    /\ caller_mm_counts = MmCountsArgs
    /\ caller_seq_lens = 0..MaxSeqLen
    /\ Fresh

Init == InitLimits \/ InitProcessor

Spec == Init /\ [][Next]_vars

\* Repeated profiling of one model: the caller makes MaxCalls calls, with
\* mm_counts omitted or one explicit mapping, and with the full sequence
\* length or one shorter length.
InitRepeat ==
    /\ supported_mm_limits = [m \in {"image"} |-> NoLimit]
    /\ limit_per_prompt = [m \in Modalities |-> 1]
    /\ mm_max_tokens_per_item = [m \in Modalities |-> 1]
    /\ item_embeds = mm_max_tokens_per_item
    /\ text_len \in 1..MaxTextLen
    /\ pad_dummy_encoder_prompt \in BOOLEAN
    /\ calls_left = MaxCalls
    /\ caller_mm_counts = {Omitted, Given([m \in {"image"} |-> MaxLimit + 1])}
    /\ \E s \in 0..MaxSeqLen - 1 : caller_seq_lens = {s, MaxSeqLen}
    /\ Fresh

SpecRepeat == InitRepeat /\ [][Next]_vars

(***************************************************************************)
(* Properties.                                                             *)
(***************************************************************************)
ProfilingOps ==
    {"get_and_validate_mm_inputs", "get_encoder_dummy_data", "get_decoder_dummy_data"}

InTrace(e) == \E i \in 1..Len(last.trace) : last.trace[i] = e

Position(e) == CHOOSE i \in 1..Len(last.trace) : last.trace[i] = e

IsPrefix(p, t) == Len(p) <= Len(t) /\ SubSeq(t, 1, Len(p)) = p

\* What the processor returned to the last call, before any padding.
Processed == GetDummyMmInputs(last.seq_len, last.mm_counts)

\* Sum of get_num_embeds() over the processed placeholder items of m.
ActualEmbeds(m) ==
    IF m \in DOMAIN Processed.mm_placeholders
    THEN Sum(Processed.mm_placeholders[m]) ELSE 0

SameCallAsFirst ==
    /\ snap.op = last.op
    /\ snap.seq_len = last.seq_len
    /\ snap.arg = last.arg

\* C1: a call of get_and_validate_mm_inputs (directly or from the encoder /
\* decoder call) that processed dummy inputs whose embeddings for some
\* modality m of mm_counts do not sum to mm_max_tokens_per_item[m] *
\* mm_counts[m] does not return: it raises AssertionError.  A modality the
\* processor emits no placeholder entry for has an actual total of 0.
C1_MismatchAlwaysRaises ==
    (/\ last.op \in ProfilingOps
     /\ InTrace("apply")
     /\ \E m \in DOMAIN last.mm_counts :
            ActualEmbeds(m) # mm_max_tokens_per_item[m] * last.mm_counts[m])
    => last.outcome = "AssertionError"

\* C2: get_mm_limits raises ValueError iff some supported modality has a
\* non-null supported limit L and a requested limit R > L; otherwise it
\* returns the requested limits of exactly the supported modalities.
C2_LimitsErrorIffExceeded ==
    last.op = "get_mm_limits" =>
        /\ last.outcome \in {"ok", "ValueError"}
        /\ last.outcome = "ValueError" <=>
               \E m \in DOMAIN supported_mm_limits :
                   /\ supported_mm_limits[m] # NoLimit
                   /\ limit_per_prompt[m] > supported_mm_limits[m]
        /\ last.outcome = "ok" =>
               /\ DOMAIN last.mm_counts = DOMAIN supported_mm_limits
               /\ \A m \in DOMAIN last.mm_counts :
                      last.mm_counts[m] = limit_per_prompt[m]

\* get_mm_limits returned although a modality without a supported limit is
\* requested above every non-null limit, and another is at its limit.
C2_Witness ==
    /\ last.op = "get_mm_limits"
    /\ last.outcome = "ok"
    /\ \E m, n \in DOMAIN supported_mm_limits :
           /\ supported_mm_limits[m] = NoLimit
           /\ limit_per_prompt[m] = MaxLimit + 1
           /\ supported_mm_limits[n] # NoLimit
           /\ limit_per_prompt[n] = supported_mm_limits[n]

\* C3: get_decoder_dummy_data returns the processor's prompt_token_ids
\* right-padded with 0 to exactly seq_len when they are shorter than seq_len,
\* and unchanged (never truncated) otherwise.
C3_DecoderPadding ==
    (last.op = "get_decoder_dummy_data" /\ last.outcome = "ok") =>
        LET orig == Processed.prompt_token_ids
            total_len == Len(orig)
        IN  IF total_len < last.seq_len
            THEN /\ Len(last.tokens) = last.seq_len
                 /\ IsPrefix(orig, last.tokens)
                 /\ \A i \in total_len + 1..last.seq_len : last.tokens[i] = 0
            ELSE last.tokens = orig

C3_Witness ==
    /\ last.op = "get_decoder_dummy_data"
    /\ last.outcome = "ok"
    /\ last.total_len = 2
    /\ last.seq_len = MaxSeqLen
    /\ Len(last.tokens) = MaxSeqLen
    /\ last.tokens[MaxSeqLen] = 0

\* C4: get_encoder_dummy_data returns the processor's
\* encoder_prompt_token_ids right-padded with 0 to max(total_len, seq_len)
\* when pad_dummy_encoder_prompt is true, and unchanged when it is false;
\* the sequence is never truncated.
C4_EncoderPadding ==
    (last.op = "get_encoder_dummy_data" /\ last.outcome = "ok") =>
        LET orig == Processed.encoder_prompt_token_ids
            total_len == Len(orig)
        IN  /\ IsPrefix(orig, last.tokens)
            /\ IF pad_dummy_encoder_prompt
               THEN /\ Len(last.tokens) = Max(total_len, last.seq_len)
                    /\ \A i \in total_len + 1..Len(last.tokens) : last.tokens[i] = 0
               ELSE last.tokens = orig

C4_Witness ==
    /\ last.op = "get_encoder_dummy_data"
    /\ last.outcome = "ok"
    /\ pad_dummy_encoder_prompt
    /\ last.total_len < last.seq_len
    /\ Len(last.tokens) = last.seq_len
    /\ last.tokens[last.seq_len] = 0

C6_EncoderOverflowIsNotFatal ==
    (last.op = "get_encoder_dummy_data" /\ last.outcome = "ok") =>
        LET orig == Processed.encoder_prompt_token_ids
        IN  /\ last.warn <=> Len(orig) > last.seq_len
            /\ last.warn =>
                  /\ last.tokens = orig
                  /\ Len(last.tokens) > last.seq_len
                  /\ EncoderWarning(last.seq_len, Len(orig), last.totals) \in warned

C6_Witness ==
    /\ last.op = "get_encoder_dummy_data"
    /\ last.outcome = "ok"
    /\ last.warn
    /\ Len(last.tokens) = 3
    /\ last.seq_len = 2

\* C7: get_decoder_dummy_data requests the overflow warning iff
\* total_len > seq_len and VLLM_USE_V1 is false, and the tokens it returns
\* are those of the first call with the same (seq_len, mm_counts), whatever
\* the flag was in the two calls.
C7_DecoderWarningNeedsV0 ==
    (last.op = "get_decoder_dummy_data" /\ last.outcome = "ok") =>
        /\ last.warn <=>
               (Len(Processed.prompt_token_ids) > last.seq_len /\ ~last.use_v1)
        /\ (SameCallAsFirst /\ snap.use_v1 # last.use_v1) =>
               last.tokens = snap.tokens

\* The same overflowing decoder call, first warned about under V0 and then
\* made under V1 without a warning.
C7_Witness ==
    /\ last.op = "get_decoder_dummy_data"
    /\ last.outcome = "ok"
    /\ SameCallAsFirst
    /\ ~snap.use_v1 /\ snap.warn
    /\ last.use_v1 /\ ~last.warn
    /\ last.total_len > last.seq_len

\* C8: when mm_counts has a modality that get_mm_max_tokens_per_item does
\* not return, the call raises AssertionError before the builder or
\* processor.apply is called; builder and apply are called only after the
\* max-tokens query, with the subset check passed.
C8_SubsetCheckBeforeBuilder ==
    (last.op \in ProfilingOps /\ last.outcome # "ValueError") =>
        LET missing == DOMAIN last.mm_counts \ DOMAIN mm_max_tokens_per_item
            built == InTrace("get_dummy_processor_inputs") \/ InTrace("apply")
        IN  /\ missing # {} =>
                  /\ last.outcome = "AssertionError"
                  /\ ~built
            /\ built =>
                  /\ missing = {}
                  /\ InTrace("get_mm_max_tokens_per_item")
                  /\ InTrace("get_dummy_processor_inputs")
                  /\ InTrace("apply")
                  /\ Position("get_mm_max_tokens_per_item")
                        < Position("get_dummy_processor_inputs")
                  /\ Position("get_dummy_processor_inputs") < Position("apply")

\* mm_counts derived from the limits names a modality without max tokens.
C8_Witness ==
    /\ last.op = "get_decoder_dummy_data"
    /\ ~last.arg.given
    /\ last.outcome = "AssertionError"
    /\ DOMAIN last.mm_counts \ DOMAIN mm_max_tokens_per_item # {}
    /\ last.trace = <<"get_mm_limits", "get_mm_max_tokens_per_item">>

\* C9: every message is written to the log at most once, and the log
\* holds one line per distinct overflow condition (call, seq_len,
\* total_len, placeholder totals) that requested a warning.
C9_WarningsLoggedOnce ==
    /\ \A msg \in DOMAIN log : log[msg] = 1
    /\ DOMAIN log = warned
    /\ Cardinality(DOMAIN log) = Cardinality(overflows)

\* The third call repeats the first, overflowing call, after a call with a
\* different overflow: two lines in the log.
C9_Witness ==
    /\ calls_left = 0
    /\ last = snap
    /\ last.warn
    /\ Cardinality(overflows) = 2
    /\ Cardinality(DOMAIN log) = 2

\* C10: with mm_counts given, get_mm_limits is not called and no ValueError
\* is raised; with mm_counts omitted, a limit error of get_mm_limits is the
\* outcome of the call and nothing is called after get_mm_limits.
C10_LimitsCheckedOnlyWhenOmitted ==
    last.op \in ProfilingOps =>
        LET exceeded == \E m \in DOMAIN supported_mm_limits :
                            /\ supported_mm_limits[m] # NoLimit
                            /\ limit_per_prompt[m] > supported_mm_limits[m]
        IN  /\ last.arg.given =>
                  /\ ~InTrace("get_mm_limits")
                  /\ last.outcome # "ValueError"
            /\ (~last.arg.given /\ exceeded) =>
                  /\ last.outcome = "ValueError"
                  /\ last.trace = <<"get_mm_limits">>
            /\ (~last.arg.given /\ ~exceeded) =>
                  /\ last.outcome # "ValueError"
                  /\ Head(last.trace) = "get_mm_limits"

\* An explicit count above the supported limit is profiled without error.
C10_Witness ==
    /\ last.op = "get_decoder_dummy_data"
    /\ last.arg.given
    /\ last.outcome = "ok"
    /\ \E m \in DOMAIN last.mm_counts \cap DOMAIN supported_mm_limits :
           /\ supported_mm_limits[m] # NoLimit
           /\ last.mm_counts[m] > supported_mm_limits[m]

====
